---- MODULE Spec2Model ----
(***************************************************************************)
(* A model of at.py, the AT command codec for Nordic's nRF91 series:       *)
(* parse_string (wire line -> command / response dictionaries) and         *)
(* encode_command (command dictionaries -> wire line).                     *)
(*                                                                         *)
(* A Python str is a sequence of one-character strings.  A Python value    *)
(* that can sit in a 'params' list is a tagged record: None, an int, a str *)
(* or a list.  A dict is a record with the keys of the source.  A call     *)
(* that can raise returns Ok(value) or Raise(exception).                   *)
(***************************************************************************)
EXTENDS Integers, Sequences, FiniteSets, TLC

VARIABLES pc, cmd_str, cmd_dicts, parsed, encoded,
          params_str, remaining, locals, returned

vars == <<pc, cmd_str, cmd_dicts, parsed, encoded,
          params_str, remaining, locals, returned>>

(***************************************************************************)
(* Python values.                                                          *)
(***************************************************************************)
None == [t |-> "None"]
IntOf(n) == [t |-> "int", v |-> n]
StrOf(s) == [t |-> "str", v |-> s]
ListOf(seq) == [t |-> "list", v |-> seq]

IsList(x) == "t" \in DOMAIN x /\ x.t = "list"

Ok(v) == [ok |-> TRUE, val |-> v]
Raise(e) == [ok |-> FALSE, exc |-> e]

NestedArrayError == "ATError: Nested array encountered"
TrailingDataError == "ATError: Unexpected trailing data after OK"
IntValueError == "ValueError: invalid literal for int() with base 10"
UnpackError == "ValueError: wrong number of values to unpack (expected 2)"
UnknownTypeError == "ATError: Unknown command type"
IndexError == "IndexError: tuple index out of range"

(***************************************************************************)
(* The module's constants.                                                 *)
(***************************************************************************)
AT_TYPE_VALUE_SET == "SET"
AT_TYPE_VALUE_READ == "READ"
AT_TYPE_VALUE_TEST == "TEST"
AT_TYPE_VALUE_RESPONSE == "RESPONSE"

AT_PARAM_SEP == ","
AT_RSP_SEP == ":"
AT_PARAM_CONCAT_SEP == ";"

AT_CMD_PREFIX == <<"A", "T">>
AT_CMD_SET_IDENT == <<"=">>
AT_CMD_READ_IDENT == <<"?">>
AT_CMD_TEST_IDENT == <<"=", "?">>
AT_CMD_STRING_IDENT == "\""
AT_CMD_ARRAY_START == "("
AT_CMD_ARRAY_END == ")"

AT_RSP_OK == <<"O", "K">>
AT_RSP_ERROR == <<"E", "R", "R", "O", "R">>

AT_STD_PREFX == "+"
AT_PROP_PREFX == "%"

(***************************************************************************)
(* The str methods the source uses.                                        *)
(***************************************************************************)
Whitespace == {" ", "\t", "\n", "\r"}

LowerCase == <<"a", "b", "c", "d", "e", "f", "g", "h", "i", "j", "k", "l", "m",
               "n", "o", "p", "q", "r", "s", "t", "u", "v", "w", "x", "y", "z">>
UpperCase == <<"A", "B", "C", "D", "E", "F", "G", "H", "I", "J", "K", "L", "M",
               "N", "O", "P", "Q", "R", "S", "T", "U", "V", "W", "X", "Y", "Z">>

UpperChar(c) ==
    IF \E i \in 1..Len(LowerCase) : LowerCase[i] = c
    THEN UpperCase[CHOOSE i \in 1..Len(LowerCase) : LowerCase[i] = c]
    ELSE c

\* str.upper()
Upper(s) == [i \in 1..Len(s) |-> UpperChar(s[i])]

Chars(s) == {s[i] : i \in 1..Len(s)}

\* s[n:]
DropFirst(s, n) == SubSeq(s, n + 1, Len(s))

\* s[:-n]
DropLast(s, n) == SubSeq(s, 1, Len(s) - n)

\* str.startswith(p)
StartsWith(s, p) == Len(s) >= Len(p) /\ SubSeq(s, 1, Len(p)) = p

\* str.endswith(p)
EndsWith(s, p) == Len(s) >= Len(p) /\ SubSeq(s, Len(s) - Len(p) + 1, Len(s)) = p

\* p in s
Contains(s, p) ==
    \E i \in 0..(Len(s) - Len(p)) : SubSeq(s, i + 1, i + Len(p)) = p

\* str.lstrip(chars): every leading character that belongs to chars goes
LStripChars(s, chars) ==
    LET keep == {i \in 1..Len(s) : s[i] \notin chars}
    IN  IF keep = {} THEN <<>>
        ELSE SubSeq(s, CHOOSE i \in keep : \A j \in keep : i <= j, Len(s))

\* str.rstrip(chars): every trailing character that belongs to chars goes
RStripChars(s, chars) ==
    LET keep == {i \in 1..Len(s) : s[i] \notin chars}
    IN  IF keep = {} THEN <<>>
        ELSE SubSeq(s, 1, CHOOSE i \in keep : \A j \in keep : i >= j)

\* str.strip(chars)
StripChars(s, chars) == RStripChars(LStripChars(s, chars), chars)

\* str.strip()
Strip(s) == StripChars(s, Whitespace)

\* str.split(sep) for a one-character sep: always at least one piece
RECURSIVE Split(_, _)
Split(s, sep) ==
    LET at == {i \in 1..Len(s) : s[i] = sep}
    IN  IF at = {} THEN <<s>>
        ELSE LET i == CHOOSE k \in at : \A j \in at : k <= j
             IN  <<SubSeq(s, 1, i - 1)>> \o Split(DropFirst(s, i), sep)

\* "".join(strs)
RECURSIVE Concat(_)
Concat(strs) ==
    IF strs = <<>> THEN <<>> ELSE Head(strs) \o Concat(Tail(strs))

\* sep.join(strs)
RECURSIVE Join(_, _)
Join(sep, strs) ==
    IF strs = <<>> THEN <<>>
    ELSE IF Len(strs) = 1 THEN Head(strs)
    ELSE Head(strs) \o <<sep>> \o Join(sep, Tail(strs))

Digits == <<"0", "1", "2", "3", "4", "5", "6", "7", "8", "9">>

IsDigit(c) == \E i \in 1..Len(Digits) : Digits[i] = c

DigitValue(c) == (CHOOSE i \in 1..Len(Digits) : Digits[i] = c) - 1

RECURSIVE DigitsValue(_)
DigitsValue(s) ==
    IF s = <<>> THEN 0
    ELSE DigitsValue(DropLast(s, 1)) * 10 + DigitValue(s[Len(s)])

Unsigned(body) ==
    IF body # <<>> /\ body[1] \in {"+", "-"} THEN Tail(body) ELSE body

AllDigits(digits) ==
    digits # <<>> /\ \A i \in 1..Len(digits) : IsDigit(digits[i])

\* what int() accepts, blanks stripped: an optional sign and one or more digits
IsIntLiteral(body) == AllDigits(Unsigned(body))

\* the value of what int() accepts
IntValue(body) ==
    IF body[1] = "-" THEN 0 - DigitsValue(Tail(body))
    ELSE DigitsValue(Unsigned(body))

\* int(s) of a stripped s
IntOfStripped(body) ==
    IF IsIntLiteral(body) THEN Ok(IntOf(IntValue(body)))
    ELSE Raise(IntValueError)

\* int(s)
PyInt(s) == IntOfStripped(Strip(s))

RECURSIVE NatStr(_)
NatStr(n) ==
    IF n < 10 THEN <<Digits[n + 1]>>
    ELSE NatStr(n \div 10) \o <<Digits[(n % 10) + 1]>>

\* str(n) for an int
IntStr(n) == IF n < 0 THEN <<"-">> \o NatStr(0 - n) ELSE NatStr(n)

(***************************************************************************)
(* _parse_param, _encode_param                                             *)
(***************************************************************************)
\* _parse_param as the text "every double quote removed" would have it
_parse_param_no_quotes(param_str) ==
    IF param_str = <<>> THEN Ok(None)
    ELSE IF param_str[1] = AT_CMD_STRING_IDENT
         THEN Ok(StrOf(SelectSeq(param_str, LAMBDA c : c # "\"")))
    ELSE PyInt(param_str)

_parse_param(param_str) ==
    IF param_str = <<>> THEN Ok(None)
    ELSE IF param_str[1] = AT_CMD_STRING_IDENT
         THEN Ok(StrOf(StripChars(param_str, {"\""})))
    ELSE PyInt(param_str)

_encode_param(param) ==
    IF param = None THEN <<" ">>
    ELSE IF param.t = "str"
         THEN <<AT_CMD_STRING_IDENT>> \o param.v \o <<AT_CMD_STRING_IDENT>>
    ELSE IntStr(param.v)

(***************************************************************************)
(* _parse_params: the loop over the comma-separated pieces.  The locals of *)
(* the loop are the record st = [result, array, end_of_array]; array is    *)
(* None while no array is open.  Each step of the loop body is Ok(the      *)
(* locals after it) or the Raise that ends the call.                       *)
(***************************************************************************)
ParamsStart == [result |-> <<>>, array |-> None, end_of_array |-> FALSE]

\* lines 127-129, the reset of end_of_array on line 130 forgotten
EndOfArrayNoReset(st) ==
    IF st.end_of_array
    THEN Ok([result |-> Append(st.result, st.array), array |-> None,
             end_of_array |-> TRUE])
    ELSE Ok(st)

\* lines 127-130
EndOfArray(st) ==
    IF st.end_of_array
    THEN Ok([result |-> Append(st.result, st.array), array |-> None,
             end_of_array |-> FALSE])
    ELSE Ok(st)

\* lines 123-126, value being what _parse_param returned or raised
AppendValue(st, value) ==
    IF ~value.ok THEN value
    ELSE IF st.array # None
    THEN EndOfArray([st EXCEPT !.array = ListOf(Append(st.array.v, value.val))])
    ELSE EndOfArray([st EXCEPT !.result = Append(st.result, value.val)])

\* lines 120-122
CloseArray(st, param_str) ==
    IF EndsWith(param_str, <<AT_CMD_ARRAY_END>>)
    THEN AppendValue([st EXCEPT !.end_of_array = TRUE],
                     _parse_param(DropLast(param_str, 1)))
    ELSE AppendValue(st, _parse_param(param_str))

\* line 115, the check left out
ArrayIsOpenNever(st) == FALSE

\* line 115: an array is open already
ArrayIsOpen(st) == st.array # None

\* lines 114-119
OpenArray(st, param_str) ==
    IF StartsWith(param_str, <<AT_CMD_ARRAY_START>>)
    THEN IF ArrayIsOpen(st) THEN Raise(NestedArrayError)
         ELSE CloseArray([st EXCEPT !.array = ListOf(<<>>)],
                         DropFirst(param_str, 1))
    ELSE CloseArray(st, param_str)

\* lines 113-130: one pass of the for loop, over param
ParamsLoopBody(st, param) == OpenArray(st, Strip(param))

\* lines 112-130: the locals after the loop over pieces, or the first raise
RECURSIVE ParamsLoop(_, _)
ParamsNext(next, rest) ==
    IF next.ok THEN ParamsLoop(next.val, rest) ELSE next

ParamsLoop(st, pieces) ==
    IF pieces = <<>> THEN Ok(st)
    ELSE ParamsNext(ParamsLoopBody(st, Head(pieces)), Tail(pieces))

\* line 131
ReturnParams(done) ==
    IF done.ok THEN Ok(ListOf(done.val.result)) ELSE done

_parse_params(params_str_) ==
    ReturnParams(ParamsLoop(ParamsStart, Split(params_str_, AT_PARAM_SEP)))

RECURSIVE _encode_params(_)
\* lines 138-142
EncodeElement(param) ==
    IF ~IsList(param) THEN _encode_param(param)
    ELSE <<AT_CMD_ARRAY_START>> \o _encode_params(param) \o <<AT_CMD_ARRAY_END>>

_encode_params(params_seq) ==
    Join(AT_PARAM_SEP,
         [i \in 1..Len(params_seq.v) |-> EncodeElement(params_seq.v[i])])

(***************************************************************************)
(* parse_string                                                            *)
(***************************************************************************)
\* a, b = halves
Unpacks(halves) == Len(halves) = 2

\* lines 181 and 171: str.lstrip(AT_CMD_PREFIX)
StripPrefix(cmd) == LStripChars(cmd, Chars(AT_CMD_PREFIX))

\* lines 171 and 174: cmd_str.upper().lstrip('AT').rstrip('=?')
StripCmdName(cmd_str_) ==
    RStripChars(StripPrefix(Upper(cmd_str_)), Chars(AT_CMD_TEST_IDENT))

\* lines 179-182: the statements of a SET line in order, or the first raise
RECURSIVE ParseStmts(_, _)
AppendStmt(cmd, params_, rest, acc) ==
    IF ~params_.ok THEN params_
    ELSE ParseStmts(rest,
                    Append(acc, [cmd |-> StripPrefix(cmd),
                                 type |-> AT_TYPE_VALUE_SET,
                                 params |-> params_.val]))

ParseStmt(halves, rest, acc) ==
    IF ~Unpacks(halves) THEN Raise(UnpackError)
    ELSE AppendStmt(halves[1], _parse_params(halves[2]), rest, acc)

ParseStmts(stmts, acc) ==
    IF stmts = <<>> THEN Ok(acc)
    ELSE ParseStmt(Split(Head(stmts), AT_CMD_SET_IDENT[1]), Tail(stmts), acc)

\* lines 183-186
ReturnStmts(stmts) ==
    IF ~stmts.ok THEN stmts
    ELSE IF Len(stmts.val) = 1 THEN Ok(stmts.val[1])
    ELSE Ok(ListOf(stmts.val))

\* lines 177-186
ParseSetLine(cmd_str_) ==
    ReturnStmts(ParseStmts(Split(cmd_str_, AT_PARAM_CONCAT_SEP), <<>>))

\* lines 159-169
MakeResponse(response, params_) ==
    IF ~params_.ok THEN params_
    ELSE Ok([response |-> response,
             type |-> AT_TYPE_VALUE_RESPONSE,
             error |-> Contains(response, AT_RSP_ERROR),
             params |-> params_.val])

\* line 158
UnpackResponse(halves) ==
    IF ~Unpacks(halves) THEN Raise(UnpackError)
    ELSE MakeResponse(halves[1], _parse_params(halves[2]))

\* lines 158-169
ParseResponse(cmd_str_) == UnpackResponse(Split(cmd_str_, AT_RSP_SEP))

\* line 148 without .upper()
TempCmdStrNoUpper(cmd_str_) == Strip(cmd_str_)

\* line 148
TempCmdStr(cmd_str_) == Upper(Strip(cmd_str_))

\* lines 149-186
ParseClassified(cmd_str_, temp_cmd_str) ==
    IF StartsWith(temp_cmd_str, AT_RSP_OK)
    THEN IF Len(temp_cmd_str) # Len(AT_RSP_OK)
         THEN Raise(TrailingDataError)
         ELSE Ok([response |-> AT_RSP_OK,
                  type |-> AT_TYPE_VALUE_RESPONSE,
                  error |-> FALSE,
                  params |-> ListOf(<<>>)])
    ELSE IF \/ StartsWith(temp_cmd_str, <<AT_STD_PREFX>>)
            \/ StartsWith(temp_cmd_str, <<AT_PROP_PREFX>>)
    THEN ParseResponse(cmd_str_)
    ELSE IF EndsWith(cmd_str_, AT_CMD_TEST_IDENT)
    THEN Ok([cmd |-> StripCmdName(cmd_str_),
             type |-> AT_TYPE_VALUE_TEST, params |-> ListOf(<<>>)])
    ELSE IF EndsWith(cmd_str_, AT_CMD_READ_IDENT)
    THEN Ok([cmd |-> StripCmdName(cmd_str_),
             type |-> AT_TYPE_VALUE_READ, params |-> ListOf(<<>>)])
    ELSE ParseSetLine(cmd_str_)

parse_string(cmd_str_) == ParseClassified(cmd_str_, TempCmdStr(cmd_str_))

(***************************************************************************)
(* encode_command                                                          *)
(***************************************************************************)
\* the result_strs=None of a first call: "not result_strs" holds of it as of []
NoResultStrs == <<>>

\* lines 191-192 with the prefix added on every call, recursive ones included
StartResultStrsEveryCall(result_strs) == result_strs \o <<AT_CMD_PREFIX>>

\* lines 191-192
StartResultStrs(result_strs) ==
    IF result_strs = <<>> THEN <<AT_CMD_PREFIX>> ELSE result_strs

\* lines 193-194
AsTuple(cmd_dicts_) ==
    IF ~IsList(cmd_dicts_) THEN <<cmd_dicts_>> ELSE cmd_dicts_.v

\* lines 196-206: what the first command appends to result_strs, or the raise
EncodeFirst(cmd_dict) ==
    IF cmd_dict.type = AT_TYPE_VALUE_SET
    THEN Ok(<<cmd_dict.cmd, AT_CMD_SET_IDENT, _encode_params(cmd_dict.params)>>)
    ELSE IF cmd_dict.type = AT_TYPE_VALUE_READ
    THEN Ok(<<cmd_dict.cmd, AT_CMD_READ_IDENT>>)
    ELSE IF cmd_dict.type = AT_TYPE_VALUE_TEST
    THEN Ok(<<cmd_dict.cmd, AT_CMD_TEST_IDENT>>)
    ELSE Raise(UnknownTypeError)

RECURSIVE encode_command(_, _)
\* lines 208-212
EncodeRest(dicts, strs, first) ==
    IF ~first.ok THEN first
    ELSE IF Len(dicts) = 1 THEN Ok(Concat(strs \o first.val))
    ELSE encode_command(ListOf(Tail(dicts)),
                        strs \o first.val \o <<<<AT_PARAM_CONCAT_SEP>>>>)

\* lines 196-212
EncodeDicts(dicts, strs) ==
    IF dicts = <<>> THEN Raise(IndexError)
    ELSE EncodeRest(dicts, strs, EncodeFirst(dicts[1]))

encode_command(cmd_dicts_, result_strs) ==
    EncodeDicts(AsTuple(cmd_dicts_), StartResultStrs(result_strs))

(***************************************************************************)
(* The inputs the calls are made on.                                       *)
(***************************************************************************)
MaxParams == 3
MaxLinePieces == 2
MaxStmts == 2
MaxPieces == 3
MaxValues == 2
MaxCmds == 3

\* the sequences over S of 1..n elements
SeqsUpTo(S, n) == UNION {[1..k -> S] : k \in 1..n}

\* the parameter strings of 1..n comma-separated pieces of S
ParamStrsOf(S, n) == {Join(AT_PARAM_SEP, ps) : ps \in SeqsUpTo(S, n)}

\* pieces of a canonical parameter list: integers as str() writes them,
\* quoted text without separators or quotes inside, the two ends of an array
\* and a whole one-element array
CanonicalPieces ==
    { <<"1">>, <<"-", "2", "0">>, <<"\"", "A", "B", "\"">>,
      <<"(", "1">>, <<"2", ")">>, <<"(", "\"", "A", "\"", ")">> }

EmptyPiece == <<>>

\* pieces on a command or response line
LinePieces ==
    CanonicalPieces \cup
    { EmptyPiece, <<"\"", "A", "=", "B", "\"">>, <<"\"", "A", ":", "B", "\"">> }

\* pieces given to _parse_params alone
ParamPieces ==
    { <<>>, <<"7">>, <<" ", "-", "1", "2", " ">>, <<"0", "7">>, <<"x">>,
      <<"\"", "a", "\"">>, <<"\"", "a", "\"", "b", "\"">>,
      <<"\"", "\"", "a", "\"", "\"">>, <<"\"", "a">>,
      <<"(", "1">>, <<" ", "(", "\"", "b", "\"">>, <<"2", ")">>, <<")">>,
      <<"(", "3", ")">>, <<"(", ")">> }

ParamStrs == ParamStrsOf(ParamPieces, MaxPieces)

LineParamStrs == ParamStrsOf(LinePieces, MaxLinePieces)

\* names as the nRF91 commands have them, with the '+' or '%' of the command
StdNames == { <<"+", "X">>, <<"%", "Y", "7">>, <<"+", "T", "A">> }

\* uppercase identifiers without it
BareNames == { <<"T", "X">>, <<"A">>, <<"X", "A", "T">>, <<"C">> }

OddNames == { <<"+", "X", "=">>, <<"+", "x">> }

Pads == { <<>>, <<" ">> }

OkWords == { <<"O", "K">>, <<"o", "k">>, <<"O", "k">>, <<"o", "K">> }

OkTrails ==
    { <<>>, <<" ", "1">>, <<"A", "Y">>, <<":", "1">>, <<"=", "?">>, <<"?">>,
      <<"=", "1">>, <<" ", "G", "A", "R", "B", "A", "G", "E">> }

OkLines ==
    { a \o w \o t \o b : a \in Pads, w \in OkWords, t \in OkTrails, b \in Pads }

Labels ==
    { <<"+", "A">>, <<"%", "B", " ", "E", "R", "R", "O", "R">>,
      <<"+", "c", " ", "e", "r", "r", "o", "r">> }

ResponseLines ==
    Labels \cup
    { l \o <<AT_RSP_SEP>> \o ps : l \in Labels, ps \in LineParamStrs } \cup
    { <<" ">> \o l \o <<AT_RSP_SEP, " ">> \o ps :
          l \in Labels, ps \in ParamStrsOf(CanonicalPieces, 1) }

QueryLines ==
    { pre \o n \o q : pre \in {AT_CMD_PREFIX, <<"a", "t">>},
                      n \in StdNames \cup BareNames \cup OddNames,
                      q \in {AT_CMD_READ_IDENT, AT_CMD_TEST_IDENT, <<"?", " ">>} }

SetLines ==
    { AT_CMD_PREFIX \o n \o AT_CMD_SET_IDENT \o ps :
          n \in StdNames \cup BareNames, ps \in LineParamStrs }

\* the statements of the lines of several statements
ConcatStmts ==
    { <<"+", "X", "=", "1">>, <<"%", "Y", "7", "=", "(", "1", ",", "2", ")">>,
      <<"+", "T", "A", "=", "\"", "A", "B", "\"", ",", "-", "2", "0">>,
      <<"+", "X", "=">>, <<"A", "C", "=", "1">>, <<"+", "X">>,
      <<"+", "X", "=", "\"", "A", "=", "\"">> }

ConcatLines ==
    { AT_CMD_PREFIX \o Join(AT_PARAM_CONCAT_SEP, ss) :
          ss \in SeqsUpTo(ConcatStmts, MaxStmts) }

\* canonical parameters: uppercase, no blanks, integers as str() writes them,
\* text without separators or quotes inside, arrays closed and not nested
CanonicalParams ==
    { <<"1">>, <<"-", "2", "0">>, <<"\"", "A", "B", "\"">>,
      <<"(", "1", ")">>, <<"(", "\"", "A", "B", "\"", ",", "-", "2", "0", ")">> }

\* the empty parameter, alone and inside an array
EmptyParams == { EmptyPiece, <<"(", ")">>, <<"(", "1", ",", ",", "2", ")">> }

CanonicalStmts ==
    { <<"+", "X", "=", "1">>, <<"%", "Y", "7", "=", "(", "1", ",", "2", ")">>,
      <<"+", "T", "A", "=", "\"", "A", "B", "\"", ",", "-", "2", "0">> }

\* the canonical command lines whose parameters are those of P
CanonicalLinesOf(P) ==
    { AT_CMD_PREFIX \o n \o q :
          n \in StdNames, q \in {AT_CMD_READ_IDENT, AT_CMD_TEST_IDENT} } \cup
    { AT_CMD_PREFIX \o n \o AT_CMD_SET_IDENT \o ps :
          n \in StdNames, ps \in ParamStrsOf(P, MaxParams) } \cup
    { AT_CMD_PREFIX \o Join(AT_PARAM_CONCAT_SEP, ss) :
          ss \in SeqsUpTo(CanonicalStmts, MaxStmts) }

CanonicalLines == CanonicalLinesOf(CanonicalParams \cup EmptyParams)

CanonicalLinesNoEmpty == CanonicalLinesOf(CanonicalParams)

Lines ==
    OkLines \cup ResponseLines \cup QueryLines \cup SetLines \cup ConcatLines
        \cup CanonicalLines

\* the values of a 'params' list
Scalars == { None, IntOf(0), IntOf(-12), StrOf(<<"a">>), StrOf(<<>>) }

Arrays ==
    { ListOf(<<>>), ListOf(<<None>>), ListOf(<<IntOf(1), None>>),
      ListOf(<<StrOf(<<"b">>), IntOf(305)>>) }

NestedArrays == { ListOf(<<IntOf(1), ListOf(<<IntOf(2)>>)>>) }

ParamLists ==
    { ListOf(<<>>) } \cup
    { ListOf(ps) : ps \in SeqsUpTo(Scalars \cup Arrays, MaxValues) } \cup
    { ListOf(<<a>>) : a \in NestedArrays }

CmdNames == StdNames \cup { <<"%", "y", "z">>, <<"T", "X">> }

Commands ==
    { [cmd |-> n, type |-> AT_TYPE_VALUE_SET, params |-> ps] :
          n \in CmdNames, ps \in ParamLists } \cup
    { [cmd |-> n, type |-> ty, params |-> ps] :
          n \in CmdNames,
          ty \in {AT_TYPE_VALUE_READ, AT_TYPE_VALUE_TEST, "EXEC"},
          ps \in {ListOf(<<>>), ListOf(<<IntOf(0)>>)} }

\* the commands of the lists of several commands
ConcatCommands ==
    { [cmd |-> <<"+", "X">>, type |-> AT_TYPE_VALUE_SET,
       params |-> ListOf(<<IntOf(1), StrOf(<<"a">>)>>)],
      [cmd |-> <<"%", "Y", "7">>, type |-> AT_TYPE_VALUE_SET,
       params |-> ListOf(<<ListOf(<<IntOf(1), IntOf(2)>>), None>>)],
      [cmd |-> <<"+", "T", "A">>, type |-> AT_TYPE_VALUE_READ,
       params |-> ListOf(<<>>)],
      [cmd |-> <<"+", "X">>, type |-> AT_TYPE_VALUE_TEST,
       params |-> ListOf(<<>>)],
      [cmd |-> <<"A", "C">>, type |-> AT_TYPE_VALUE_SET,
       params |-> ListOf(<<IntOf(-12)>>)],
      [cmd |-> <<"+", "X">>, type |-> "EXEC", params |-> ListOf(<<>>)] }

CommandLists ==
    { ListOf(<<>>) } \cup
    { ListOf(cs) : cs \in SeqsUpTo(ConcatCommands, MaxCmds) }

NotCalled == [ok |-> FALSE, exc |-> "not called"]

(***************************************************************************)
(* Spec: a line is decoded, and a decoded command is encoded again.        *)
(***************************************************************************)
Init ==
    /\ pc = "line"
    /\ cmd_str \in Lines
    /\ cmd_dicts = ListOf(<<>>)
    /\ parsed = NotCalled
    /\ encoded = NotCalled
    /\ params_str = <<>>
    /\ remaining = <<>>
    /\ locals = ParamsStart
    /\ returned = NotCalled

\* parsed = parse_string(cmd_str)
ParseString ==
    /\ pc = "line"
    /\ parsed' = parse_string(cmd_str)
    /\ pc' = "parsed"
    /\ UNCHANGED <<cmd_str, cmd_dicts, encoded, params_str, remaining, locals,
                   returned>>

IsCommandResult(r) ==
    r.ok /\ (IsList(r.val) \/ "cmd" \in DOMAIN r.val)

\* encoded = encode_command(parsed), for a parsed command or commands
EncodeParsed ==
    /\ pc = "parsed"
    /\ IsCommandResult(parsed)
    /\ cmd_dicts' = parsed.val
    /\ encoded' = encode_command(parsed.val, NoResultStrs)
    /\ pc' = "encoded"
    /\ UNCHANGED <<cmd_str, parsed, params_str, remaining, locals, returned>>

Next == ParseString \/ EncodeParsed

Spec == Init /\ [][Next]_vars

(***************************************************************************)
(* SpecEncode: commands are encoded, and the line is decoded again.        *)
(***************************************************************************)
InitEncode ==
    /\ pc = "dicts"
    /\ cmd_dicts \in Commands \cup CommandLists
    /\ cmd_str = <<>>
    /\ parsed = NotCalled
    /\ encoded = NotCalled
    /\ params_str = <<>>
    /\ remaining = <<>>
    /\ locals = ParamsStart
    /\ returned = NotCalled

\* encoded = encode_command(cmd_dicts)
EncodeCommand ==
    /\ pc = "dicts"
    /\ encoded' = encode_command(cmd_dicts, NoResultStrs)
    /\ pc' = "encoded"
    /\ UNCHANGED <<cmd_str, cmd_dicts, parsed, params_str, remaining, locals,
                   returned>>

\* parsed = parse_string(encoded)
ParseEncoded ==
    /\ pc = "encoded"
    /\ encoded.ok
    /\ cmd_str' = encoded.val
    /\ parsed' = parse_string(encoded.val)
    /\ pc' = "reparsed"
    /\ UNCHANGED <<cmd_dicts, encoded, params_str, remaining, locals, returned>>

NextEncode == EncodeCommand \/ ParseEncoded

SpecEncode == InitEncode /\ [][NextEncode]_vars

(***************************************************************************)
(* SpecParams: _parse_params, one pass of its loop at a time.              *)
(***************************************************************************)
InitParams ==
    /\ pc = "params"
    /\ params_str \in ParamStrs
    /\ cmd_str = <<>>
    /\ cmd_dicts = ListOf(<<>>)
    /\ parsed = NotCalled
    /\ encoded = NotCalled
    /\ remaining = <<>>
    /\ locals = ParamsStart
    /\ returned = NotCalled

\* lines 108-111
SplitParams ==
    /\ pc = "params"
    /\ remaining' = Split(params_str, AT_PARAM_SEP)
    /\ locals' = ParamsStart
    /\ pc' = "loop"
    /\ UNCHANGED <<cmd_str, cmd_dicts, parsed, encoded, params_str, returned>>

\* lines 112-130, a pass that ends normally
ForParam ==
    /\ pc = "loop"
    /\ remaining # <<>>
    /\ LET next == ParamsLoopBody(locals, Head(remaining))
       IN  /\ next.ok
           /\ locals' = next.val
    /\ remaining' = Tail(remaining)
    /\ UNCHANGED <<pc, cmd_str, cmd_dicts, parsed, encoded, params_str, returned>>

\* lines 112-130, a pass that raises
ForParamRaises ==
    /\ pc = "loop"
    /\ remaining # <<>>
    /\ LET next == ParamsLoopBody(locals, Head(remaining))
       IN  /\ ~next.ok
           /\ returned' = next
    /\ pc' = "raised"
    /\ UNCHANGED <<cmd_str, cmd_dicts, parsed, encoded, params_str, remaining,
                   locals>>

\* line 131
ReturnResult ==
    /\ pc = "loop"
    /\ remaining = <<>>
    /\ returned' = Ok(ListOf(locals.result))
    /\ pc' = "returned"
    /\ UNCHANGED <<cmd_str, cmd_dicts, parsed, encoded, params_str, remaining,
                   locals>>

NextParams == SplitParams \/ ForParam \/ ForParamRaises \/ ReturnResult

SpecParams == InitParams /\ [][NextParams]_vars

(***************************************************************************)
(* Properties.                                                             *)
(***************************************************************************)
\* the index of the first c of s, for an s that holds one
FirstIndex(s, c) ==
    CHOOSE i \in 1..Len(s) : s[i] = c /\ \A j \in 1..(i - 1) : s[j] # c

BeforeFirst(s, c) == SubSeq(s, 1, FirstIndex(s, c) - 1)

AfterFirst(s, c) == SubSeq(s, FirstIndex(s, c) + 1, Len(s))

CommandKinds == {AT_TYPE_VALUE_SET, AT_TYPE_VALUE_READ, AT_TYPE_VALUE_TEST}

NoParams == ListOf(<<>>)

\* no array of the list params holds an array
DepthAtMostOne(params) ==
    \A i \in 1..Len(params.v) :
        IsList(params.v[i]) =>
            \A j \in 1..Len(params.v[i].v) : ~IsList(params.v[i].v[j])

\* a Command of the data model: READ and TEST carry no params, SET carries
\* values and arrays of values
IsCommand(c) ==
    /\ ~IsList(c)
    /\ c.type \in CommandKinds
    /\ c.type # AT_TYPE_VALUE_SET => c.params = NoParams
    /\ DepthAtMostOne(c.params)

\* C1: round trip.  For every Command without an array inside an array,
\* the empty params list and the empty array included, parse_string of
\* encode_command of it is that Command again, names compared in upper case.
C1_RoundTrip ==
    (pc = "reparsed" /\ IsCommand(cmd_dicts)) =>
        /\ parsed.ok
        /\ ~IsList(parsed.val)
        /\ "cmd" \in DOMAIN parsed.val
        /\ Upper(parsed.val.cmd) = Upper(cmd_dicts.cmd)
        /\ parsed.val.type = cmd_dicts.type
        /\ parsed.val.params = cmd_dicts.params

\* C2 as stated: idempotence.  For every canonical command line, those with
\* an empty parameter included, that parse_string decodes to a command or
\* commands, encode_command of the result is the line, character for
\* character.
C2_IdempotentWithEmptyParams ==
    (pc = "encoded" /\ cmd_str \in CanonicalLines) => encoded = Ok(cmd_str)

\* C2 as amended: the same for the canonical command lines none of whose
\* parameters, at the top level or inside an array, is empty.
C2_IdempotentWithoutEmptyParams ==
    (pc = "encoded" /\ cmd_str \in CanonicalLinesNoEmpty) => encoded = Ok(cmd_str)

C2_Witness ==
    /\ pc = "encoded"
    /\ cmd_str = <<"A", "T", "+", "X", "=", "(", "\"", "A", "B", "\"", ",",
                   "-", "2", "0", ")", ",", "1">>
    /\ IsCommandResult(parsed)
    /\ encoded = Ok(cmd_str)

\* the commands a list or a single dict gives to encode_command
GivenCommands(x) == IF IsList(x) THEN x.v ELSE <<x>>

\* name, marker and parameters of one command on the wire
WireForm(c) ==
    c.cmd \o
      (IF c.type = AT_TYPE_VALUE_SET THEN <<"=">> \o _encode_params(c.params)
       ELSE IF c.type = AT_TYPE_VALUE_READ THEN <<"?">>
       ELSE <<"=", "?">>)

\* C3: for n >= 1 commands of kinds SET, READ and TEST, encode_command
\* returns "AT" and then the n commands' wire forms in order, joined by ';':
\* one "AT", at the start of the line, none before a later command.
C3_OnePrefixThenJoined ==
    LET given == GivenCommands(cmd_dicts)
    IN  (/\ pc \in {"encoded", "reparsed"}
         /\ given # <<>>
         /\ \A i \in 1..Len(given) : given[i].type \in CommandKinds) =>
            encoded = Ok(<<"A", "T">> \o
                         Join(";", [i \in 1..Len(given) |-> WireForm(given[i])]))

C3_Witness ==
    /\ pc = "encoded"
    /\ IsList(cmd_dicts)
    /\ Len(cmd_dicts.v) = 3
    /\ cmd_dicts.v[1].type = AT_TYPE_VALUE_SET
    /\ cmd_dicts.v[2].type = AT_TYPE_VALUE_READ
    /\ cmd_dicts.v[3].type = AT_TYPE_VALUE_SET
    /\ encoded.ok

IsLetterO(c) == c \in {"O", "o"}

IsLetterK(c) == c \in {"K", "k"}

\* C4: a line whose trimmed text is "OK" in any letter case decodes to the
\* Response OK, no error, no params; a line whose trimmed text begins with
\* "OK" in any case and is longer fails with the trailing-data error.
C4_OkOrTrailingData ==
    LET trimmed == Strip(cmd_str)
    IN  (/\ pc # "line"
         /\ Len(trimmed) >= 2
         /\ IsLetterO(trimmed[1])
         /\ IsLetterK(trimmed[2])) =>
            IF Len(trimmed) = 2
            THEN parsed = Ok([response |-> <<"O", "K">>,
                              type |-> AT_TYPE_VALUE_RESPONSE,
                              error |-> FALSE,
                              params |-> NoParams])
            ELSE parsed = Raise(TrailingDataError)

C4_Witness ==
    /\ pc = "parsed"
    /\ cmd_str = <<" ", "o", "K", " ", "G", "A", "R", "B", "A", "G", "E">>
    /\ parsed = Raise(TrailingDataError)

\* C5: a line that begins with '+' or '%' and holds a ':' decodes to the
\* Response whose label is the text before the first ':' and whose params
\* are the parameters of the text after it, however many ':' follow.
C5_SplitsAtFirstColon ==
    (/\ pc = "parsed"
     /\ cmd_str # <<>>
     /\ cmd_str[1] \in {"+", "%"}
     /\ ":" \in Chars(cmd_str)
     /\ _parse_params(AfterFirst(cmd_str, ":")).ok) =>
        /\ parsed.ok
        /\ "response" \in DOMAIN parsed.val
        /\ parsed.val.response = BeforeFirst(cmd_str, ":")
        /\ parsed.val.params = _parse_params(AfterFirst(cmd_str, ":")).val

IsUpperIdent(n) ==
    /\ n # <<>>
    /\ \A i \in 1..Len(n) :
           n[i] \in Chars(UpperCase) \cup Chars(Digits) \cup {"+", "%"}

\* C6: "AT" name "=?" decodes to the TEST command, and "AT" name "?" to the
\* READ command, of exactly that name, for every uppercase identifier name:
\* the two characters "AT" and the suffix go, nothing else.
C6_LiteralPrefixAndSuffix ==
    (pc = "parsed" /\ StartsWith(cmd_str, <<"A", "T">>)) =>
        /\ \A n \in {SubSeq(cmd_str, 3, Len(cmd_str) - 2)} :
               (EndsWith(cmd_str, <<"=", "?">>) /\ IsUpperIdent(n)) =>
                   parsed = Ok([cmd |-> n, type |-> AT_TYPE_VALUE_TEST,
                                params |-> NoParams])
        /\ \A n \in {SubSeq(cmd_str, 3, Len(cmd_str) - 1)} :
               (EndsWith(cmd_str, <<"?">>) /\ IsUpperIdent(n)) =>
                   parsed = Ok([cmd |-> n, type |-> AT_TYPE_VALUE_READ,
                                params |-> NoParams])

\* the name of a statement: the "AT" that starts the line goes
WithoutLinePrefix(name) ==
    IF StartsWith(name, <<"A", "T">>) THEN DropFirst(name, 2) ELSE name

\* the SET command C7 gives statement i of the line
StmtCommand(stmts, i) ==
    [cmd |-> IF i = 1 THEN WithoutLinePrefix(BeforeFirst(stmts[i], "="))
             ELSE BeforeFirst(stmts[i], "="),
     type |-> AT_TYPE_VALUE_SET,
     params |-> _parse_params(AfterFirst(stmts[i], "=")).val]

\* C7: a line that is no OK, response, TEST or READ line and whose n
\* statements between ';' each hold a '=' decodes to n SET commands in order,
\* one alone as the bare command: each name the text before the statement's
\* first '=' without the line's "AT", each params the parameters of the text
\* after that first '=', whatever '=' follow.
C7_SplitsAtFirstEquals ==
    LET stmts == Split(cmd_str, ";")
        upper == Upper(Strip(cmd_str))
    IN  (/\ pc = "parsed"
         /\ ~StartsWith(upper, <<"O", "K">>)
         /\ ~StartsWith(upper, <<"+">>)
         /\ ~StartsWith(upper, <<"%">>)
         /\ ~EndsWith(cmd_str, <<"?">>)
         /\ \A i \in 1..Len(stmts) :
                /\ "=" \in Chars(stmts[i])
                /\ _parse_params(AfterFirst(stmts[i], "=")).ok) =>
            parsed = IF Len(stmts) = 1 THEN Ok(StmtCommand(stmts, 1))
                     ELSE Ok(ListOf([i \in 1..Len(stmts) |-> StmtCommand(stmts, i)]))

\* C8: no array of a returned params list holds an array, and a pass of the
\* loop that meets a piece beginning with '(' while an array is open raises
\* the nested-array error and returns nothing.
C8_DepthAtMostOne ==
    /\ [](returned.ok => DepthAtMostOne(returned.val))
    /\ [][(/\ pc = "loop"
           /\ remaining # <<>>
           /\ locals.array # None
           /\ StartsWith(Strip(Head(remaining)), <<"(">>)) =>
              (pc' = "raised" /\ returned' = Raise(NestedArrayError))]_vars

C8_Witness ==
    /\ pc = "raised"
    /\ returned = Raise(NestedArrayError)
    /\ IsList(locals.array)
    /\ Len(locals.array.v) = 1
    /\ Len(remaining) = 2

\* params_str is one piece, a quoted one outside any array
IsQuotedPiece(str) ==
    /\ "," \notin Chars(str)
    /\ StartsWith(Strip(str), <<"\"">>)
    /\ ~EndsWith(Strip(str), <<")">>)

\* C9 as stated: for a piece that starts with a double quote the Text
\* returned is the piece with every double quote removed, those inside
\* included: it holds no double quote.
C9_NoQuoteLeft ==
    (pc = "returned" /\ IsQuotedPiece(params_str)) =>
        /\ Len(returned.val.v) = 1
        /\ returned.val.v[1].t = "str"
        /\ "\"" \notin Chars(returned.val.v[1].v)

\* C9 as amended: the Text returned is the piece without the double quotes
\* it starts and ends with, the double quotes inside kept: it neither starts
\* nor ends with a double quote and the piece is it between double quotes.
C9_QuotesStrippedAtTheEnds ==
    (pc = "returned" /\ IsQuotedPiece(params_str)) =>
        /\ Len(returned.val.v) = 1
        /\ returned.val.v[1].t = "str"
        /\ LET text == returned.val.v[1].v
               piece == Strip(params_str)
           IN  /\ text # <<>> => (text[1] # "\"" /\ text[Len(text)] # "\"")
               /\ \E i \in 1..(Len(piece) - Len(text) + 1) :
                      /\ SubSeq(piece, i, i + Len(text) - 1) = text
                      /\ \A j \in 1..Len(piece) :
                             (j < i \/ j >= i + Len(text)) => piece[j] = "\""

C9_Witness ==
    /\ pc = "returned"
    /\ params_str = <<"\"", "a", "\"", "b", "\"">>
    /\ returned = Ok(ListOf(<<StrOf(<<"a", "\"", "b">>)>>))

\* the values of the list params, those of its arrays counted one by one
RECURSIVE ScalarCount(_)
ScalarCount(values) ==
    IF values = <<>> THEN 0
    ELSE (IF IsList(Head(values)) THEN Len(Head(values).v) ELSE 1)
             + ScalarCount(Tail(values))

\* C10: _parse_params loses and invents no piece: the values it returns,
\* those of the arrays counted one by one, are as many as the
\* comma-separated pieces of its input, also when an array is never closed
\* or a ')' closes no array.
C10_OneValuePerPiece ==
    pc = "returned" =>
        ScalarCount(returned.val.v) = Len(Split(params_str, ","))

====
